---- MODULE Spec2Model ----
(***************************************************************************)
(* Model of src/app.py, the IBEM financial dashboard: a CSV ledger is      *)
(* uploaded, its columns are resolved, the amounts are parsed, invalid     *)
(* rows are dropped, the user filters the working set, and the KPIs, the   *)
(* ranking, the monthly series and the CSV export are computed from the    *)
(* filtered view.                                                          *)
(*                                                                         *)
(* Texts are strings; a character is a string of length one.  A float is   *)
(* held exactly: _to_float yields a decimal numeral in canonical form, and *)
(* the working set holds amounts as integers, in hundredths.               *)
(***************************************************************************)
EXTENDS Integers, Sequences, FiniteSets, TLC

VARIABLES
    \* --- one cell going through parse_money_series._to_float ---
    cell,        \* the text of the cell, typed token by token
    ntok,        \* tokens typed so far
    parsed,      \* "pending", or the value _to_float returned for cell
    \* --- the script run ---
    pc,          \* position of the script
    up,          \* the uploaded file
    df,          \* the working set (a sequence of records)
    shown,       \* what st.write / st.error reported
    search, vmin, vmax, sel_mes, top_n,      \* widget values
    has_dates, meses,
    filtered,    \* the filtered view
    kpi,         \* total_pago, qtd_lanc, qtd_pessoas, ticket_medio, rank, serie
    csv_bytes,   \* the exported file
    reloaded,    \* the working set obtained by uploading csv_bytes again
    \* --- the classifier ---
    description, category

vars == <<cell, ntok, parsed, pc, up, df, shown, search, vmin, vmax, sel_mes, top_n,
          has_dates, meses, filtered, kpi, csv_bytes, reloaded,
          description, category>>

parseVars == <<cell, ntok, parsed>>
runVars == <<pc, up, df, shown, search, vmin, vmax, sel_mes, top_n,
             has_dates, meses, filtered, kpi, csv_bytes, reloaded>>
classVars == <<description, category>>

----------------------------------------------------------------------------
(* Bounds *)

\* tokens typed into one amount cell
MaxTokens == 5

\* rows of an uploaded file
MaxRows == 2

\* words of a description
MaxWords == 3


----------------------------------------------------------------------------
(* Values.  Every value carries its kind in t, so that any two compare. *)

Unset == [t |-> "unset"]     \* a variable the script has not assigned yet
NaN == [t |-> "nan"]         \* np.nan
NaT == [t |-> "nat"]         \* pd.NaT
Str(s) == [t |-> "str", s |-> s]
Num(n) == [t |-> "num", n |-> n]     \* a float, in hundredths
Date(y, m, d) == [t |-> "date", y |-> y, m |-> m, d |-> d]
None == "<None>"             \* find_column's None

----------------------------------------------------------------------------
(* Text helpers: Python's str operations, on strings *)

Ch(s, i) == SubSeq(s, i, i)

Digits == {"0", "1", "2", "3", "4", "5", "6", "7", "8", "9"}

DigitVal(c) ==
    CASE c = "0" -> 0 [] c = "1" -> 1 [] c = "2" -> 2 [] c = "3" -> 3
      [] c = "4" -> 4 [] c = "5" -> 5 [] c = "6" -> 6 [] c = "7" -> 7
      [] c = "8" -> 8 [] c = "9" -> 9

DigitChar(d) == Ch("0123456789", d + 1)

\* \s on the characters that occur
IsSpace(c) == c = " "

\* s.replace(old, new), old one character, new a string (possibly empty)
RECURSIVE Replace(_, _, _)
Replace(s, old, new) ==
    IF Len(s) = 0 THEN ""
    ELSE (IF Head(s) = old THEN new ELSE Head(s)) \o Replace(Tail(s), old, new)

\* s.count(c)
Count(s, c) == Cardinality({i \in 1..Len(s) : Ch(s, i) = c})

\* c in s
Contains(s, c) == \E i \in 1..Len(s) : Ch(s, i) = c

\* \d* on the whole of s
AllDigits(s) == \A i \in 1..Len(s) : Ch(s, i) \in Digits

\* s.strip()
RECURSIVE LStrip(_)
LStrip(s) == IF Len(s) > 0 /\ IsSpace(Head(s)) THEN LStrip(Tail(s)) ELSE s

RECURSIVE RStrip(_)
RStrip(s) ==
    IF Len(s) > 0 /\ IsSpace(Ch(s, Len(s))) THEN RStrip(SubSeq(s, 1, Len(s) - 1)) ELSE s

Strip(s) == RStrip(LStrip(s))

----------------------------------------------------------------------------
(* parse_money_series._to_float *)

\* re.sub(r"[Rr]\$|\s", "", txt): one pass, left to right
RECURSIVE StripCurrency(_)
StripCurrency(txt) ==
    IF Len(txt) = 0 THEN ""
    ELSE IF Len(txt) >= 2 /\ Head(txt) \in {"R", "r"} /\ Ch(txt, 2) = "$"
         THEN StripCurrency(SubSeq(txt, 3, Len(txt)))
    ELSE IF IsSpace(Head(txt)) THEN StripCurrency(Tail(txt))
    ELSE Head(txt) \o StripCurrency(Tail(txt))

\* (\.\d{3})+ on the whole of s
RECURSIVE IsGroups(_)
IsGroups(s) ==
    /\ Len(s) >= 4
    /\ Head(s) = "."
    /\ AllDigits(SubSeq(s, 2, 4))
    /\ (Len(s) = 4 \/ IsGroups(SubSeq(s, 5, Len(s))))

\* re.match(r"^\d{1,3}(\.\d{3})+,\d{2}$", txt)
IsPtBR(txt) ==
    \E k \in 1..3 :
        /\ Len(txt) >= k + 4 + 3
        /\ AllDigits(SubSeq(txt, 1, k))
        /\ IsGroups(SubSeq(txt, k + 1, Len(txt) - 3))
        /\ Ch(txt, Len(txt) - 2) = ","
        /\ AllDigits(SubSeq(txt, Len(txt) - 1, Len(txt)))

LastIndex(s, c) ==
    CHOOSE i \in 1..Len(s) : Ch(s, i) = c /\ \A j \in (i + 1)..Len(s) : Ch(s, j) # c

\* parts = txt.split("."); "".join(parts[:-1]) + "." + parts[-1]
JoinAllButLast(txt) ==
    LET k == LastIndex(txt, ".")
    IN  Replace(SubSeq(txt, 1, k - 1), ".", "") \o "." \o SubSeq(txt, k + 1, Len(txt))

\* lines 67-82: the text handed to float()
MoneyText_ElseIf(v) ==
    LET txt == StripCurrency(Strip(v))
    IN  IF IsPtBR(txt) THEN Replace(Replace(txt, ".", ""), ",", ".")
        ELSE IF Contains(txt, ",") /\ ~Contains(txt, ".") THEN Replace(txt, ",", ".")
        ELSE IF Count(txt, ".") > 1 THEN JoinAllButLast(txt)
        ELSE txt

MoneyText(v) ==
    LET txt == StripCurrency(Strip(v))
    IN  IF IsPtBR(txt)
        THEN Replace(Replace(txt, ".", ""), ",", ".")
        ELSE LET t1 == IF Contains(txt, ",") /\ ~Contains(txt, ".")
                       THEN Replace(txt, ",", ".") ELSE txt
             IN  IF Count(t1, ".") > 1 THEN JoinAllButLast(t1) ELSE t1

\* A float, held exactly: sign, integer digits without leading zeros, fraction
\* digits without trailing zeros.  -0.0 == 0.0, so zero carries no sign.
RECURSIVE DropLeadingZeros(_)
DropLeadingZeros(s) ==
    IF Len(s) > 0 /\ Head(s) = "0" THEN DropLeadingZeros(Tail(s)) ELSE s

RECURSIVE DropTrailingZeros(_)
DropTrailingZeros(s) ==
    IF Len(s) > 0 /\ Ch(s, Len(s)) = "0"
    THEN DropTrailingZeros(SubSeq(s, 1, Len(s) - 1)) ELSE s

Numeral(neg, ip, fp) ==
    LET i == DropLeadingZeros(ip)
        f == DropTrailingZeros(fp)
    IN  [t |-> "float", neg |-> neg /\ Len(i) + Len(f) > 0, ip |-> i, fp |-> f]

\* float(txt), lines 84-87, on a text of digits, '.', ',', '-' and letters: an
\* optional sign, digits with at most one point and at least one digit; anything
\* else raises ValueError, which _to_float turns into NaN.
Float(txt) ==
    LET neg  == Len(txt) > 0 /\ Head(txt) = "-"
        body == IF neg THEN Tail(txt) ELSE txt
        dots == Count(body, ".")
    IN  IF dots = 0
        THEN IF Len(body) > 0 /\ AllDigits(body) THEN Numeral(neg, body, "") ELSE NaN
        ELSE IF dots = 1
        THEN LET k  == LastIndex(body, ".")
                 ip == SubSeq(body, 1, k - 1)
                 fp == SubSeq(body, k + 1, Len(body))
             IN  IF AllDigits(ip) /\ AllDigits(fp) /\ Len(ip) + Len(fp) > 0
                 THEN Numeral(neg, ip, fp) ELSE NaN
        ELSE NaN

\* _to_float(v), lines 64-87; v is NaN (pd.isna) or a text
to_float(v) == IF v.t = "nan" THEN NaN ELSE Float(MoneyText(v.s))

----------------------------------------------------------------------------
(* One cell: typed token by token, then parsed *)

Tokens == {"1", "234", "56", ".", ",", "R$", " ", "-"}

Pending == [t |-> "pending"]

TypeToken(t) ==
    /\ parsed = Pending
    /\ ntok < MaxTokens
    /\ cell' = cell \o t
    /\ ntok' = ntok + 1
    /\ UNCHANGED <<parsed, runVars, classVars>>

ParseCell ==
    /\ parsed = Pending
    /\ parsed' = to_float(Str(cell))
    /\ UNCHANGED <<cell, ntok, runVars, classVars>>

----------------------------------------------------------------------------
(* More of Python's str and float *)

UpperCase == "ABCDEFGHIJKLMNOPQRSTUVWXYZ"
LowerCase == "abcdefghijklmnopqrstuvwxyz"

LowerOf == [c \in {Ch(UpperCase, i) : i \in 1..26} |->
               Ch(LowerCase, CHOOSE i \in 1..26 : Ch(UpperCase, i) = c)]

LowerChar(c) == IF c \in DOMAIN LowerOf THEN LowerOf[c] ELSE c

\* s.lower()
RECURSIVE Lower(_)
Lower(s) == IF Len(s) = 0 THEN "" ELSE LowerChar(Head(s)) \o Lower(Tail(s))

\* sub in s
IsSubstring(sub, s) ==
    \E i \in 1..(Len(s) - Len(sub) + 1) : SubSeq(s, i, i + Len(sub) - 1) = sub

\* the characters that occur, in code point order
CodePoints == " $(),-./0123456789;ABCDEFGHIJKLMNOPQRSTUVWXYZ_abcdefghijklmnopqrstuvwxyz"

OrdOf == [c \in {Ch(CodePoints, i) : i \in 1..Len(CodePoints)} |->
             CHOOSE i \in 1..Len(CodePoints) : Ch(CodePoints, i) = c]

Ord(c) == OrdOf[c]

\* a < b on str
RECURSIVE StrLess(_, _)
StrLess(a, b) ==
    IF Len(b) = 0 THEN FALSE
    ELSE IF Len(a) = 0 THEN TRUE
    ELSE IF Head(a) = Head(b) THEN StrLess(Tail(a), Tail(b))
    ELSE Ord(Head(a)) < Ord(Head(b))

\* int(s) of a digit string
RECURSIVE StrToNat(_)
StrToNat(s) ==
    IF Len(s) = 0 THEN 0
    ELSE 10 * StrToNat(SubSeq(s, 1, Len(s) - 1)) + DigitVal(Ch(s, Len(s)))

\* str(n), n >= 0
RECURSIVE NatToStr(_)
NatToStr(n) == IF n < 10 THEN DigitChar(n) ELSE NatToStr(n \div 10) \o DigitChar(n % 10)

\* A parsed float as a number of hundredths (the amounts drawn have at most two
\* fraction digits, so nothing is lost).
Hundredths(x) ==
    IF x.t = "nan" THEN NaN
    ELSE LET f2 == SubSeq(x.fp \o "00", 1, 2)
             m  == 100 * StrToNat(x.ip) + StrToNat(f2)
         IN  Num(IF x.neg THEN 0 - m ELSE m)

\* repr(float) of a number of hundredths, as to_csv and astype(str) write it:
\* the shortest text that reads back, with at least one fraction digit
FloatRepr(n) ==
    LET a  == IF n < 0 THEN 0 - n ELSE n
        f  == a % 100
        fs == IF f % 10 = 0 THEN DigitChar(f \div 10)
              ELSE DigitChar(f \div 10) \o DigitChar(f % 10)
    IN  (IF n < 0 THEN "-" ELSE "") \o NatToStr(a \div 100) \o "." \o fs

\* comparisons of floats: every comparison with NaN is False
Ge(a, b) == a.t = "num" /\ b.t = "num" /\ a.n >= b.n
Le(a, b) == a.t = "num" /\ b.t = "num" /\ a.n <= b.n

----------------------------------------------------------------------------
(* Sequences *)

RECURSIVE SumSeq(_)
SumSeq(s) == IF s = <<>> THEN 0 ELSE Head(s) + SumSeq(Tail(s))

Range(s) == {s[i] : i \in 1..Len(s)}

\* the sequences without repetition that list exactly the set S
Listings(S) ==
    {p \in [1..Cardinality(S) -> S] : \A i, j \in 1..Cardinality(S) : i # j => p[i] # p[j]}

\* sorted(S) for a set of strings
SortedStr(S) == CHOOSE p \in Listings(S) : \A i \in 1..(Len(p) - 1) : StrLess(p[i], p[i + 1])

\* s[:n]
HeadN(s, n) == SubSeq(s, 1, IF n < Len(s) THEN n ELSE Len(s))

\* sep.join(s)
RECURSIVE Join(_, _)
Join(s, sep) ==
    IF s = <<>> THEN ""
    ELSE IF Len(s) = 1 THEN s[1]
    ELSE s[1] \o sep \o Join(Tail(s), sep)

----------------------------------------------------------------------------
(* pandas: frames, read_csv, to_datetime, to_csv *)

\* A frame is its column names, in order, and its rows, each a function of the
\* column names.
Frame(cols, rows) == [cols |-> cols, rows |-> rows]

Column(f, c) == [i \in 1..Len(f.rows) |-> f.rows[i][c]]

\* df[name] = vals: a new column goes last, an existing one is overwritten in place
SetCol(f, name, vals) ==
    Frame(IF name \in Range(f.cols) THEN f.cols ELSE Append(f.cols, name),
          [i \in 1..Len(f.rows) |->
              [c \in (DOMAIN f.rows[i]) \cup {name} |->
                  IF c = name THEN vals[i] ELSE f.rows[i][c]]])

\* df[mask], mask a Boolean per row
RECURSIVE Pick(_, _)
Pick(rows, mask) ==
    IF Len(rows) = 0 THEN <<>>
    ELSE (IF Head(mask) THEN <<Head(rows)>> ELSE <<>>) \o Pick(Tail(rows), Tail(mask))

Where(f, mask) == Frame(f.cols, Pick(f.rows, mask))

\* the texts read_csv reads as missing (pandas' default na_values)
NaValues == {"", "#N/A", "#N/A N/A", "#NA", "-1.#IND", "-1.#QNAN", "-NaN", "-nan",
             "1.#IND", "1.#QNAN", "<NA>", "N/A", "NA", "NULL", "NaN", "None",
             "n/a", "nan", "null"}

\* read_csv's inference for one column: a column whose texts are all numbers or
\* missing is numeric, any other is object, its missing texts NaN
IsNumberText(s) == Float(s).t = "float"

ReadColumn(texts) ==
    IF Len(texts) > 0 /\ \A i \in 1..Len(texts) : texts[i] \in NaValues \/ IsNumberText(texts[i])
    THEN [i \in 1..Len(texts) |->
             IF texts[i] \in NaValues THEN NaN ELSE Hundredths(Float(texts[i]))]
    ELSE [i \in 1..Len(texts) |-> IF texts[i] \in NaValues THEN NaN ELSE Str(texts[i])]

\* pd.read_csv(io.BytesIO(content), sep=sep): a file is its delimiter, its header
\* and its rows of texts.  Read with another separator, each line is one field.
ReadCsv(file, sep) ==
    IF sep = file.delim
    THEN LET n == Len(file.header)
             col == [j \in 1..n |-> ReadColumn([i \in 1..Len(file.rows) |-> file.rows[i][j]])]
         IN  Frame(file.header,
                   [i \in 1..Len(file.rows) |->
                       [c \in Range(file.header) |->
                           col[CHOOSE j \in 1..n : file.header[j] = c][i]]])
    ELSE LET name == Join(file.header, file.delim)
             col  == ReadColumn([i \in 1..Len(file.rows) |-> Join(file.rows[i], file.delim)])
         IN  Frame(<<name>>, [i \in 1..Len(file.rows) |-> [c \in {name} |-> col[i]]])

\* read_csv raises ParserError on a line with more fields than the lines before
ReadRaises(file, sep) ==
    /\ sep # file.delim
    /\ \E i \in 2..Len(file.rows) :
          Count(Join(file.rows[i], file.delim), sep)
              > Count(Join(file.rows[i - 1], file.delim), sep)

\* lines 138-146: comma first, then semicolon
LoadCsv(file) ==
    IF ReadRaises(file, ",") THEN ReadCsv(file, ";")
    ELSE LET first == ReadCsv(file, ",")
         IN  IF Len(first.cols) = 1 THEN ReadCsv(file, ";") ELSE first

\* series.astype(str), element by element
AsStr(v) ==
    CASE v.t = "str" -> v.s
      [] v.t = "nan" -> "nan"
      [] v.t = "num" -> FloatRepr(v.n)

\* pd.to_datetime(v, errors="coerce", dayfirst=True) of one value: dd/mm/yyyy, or
\* the ISO text to_csv writes; anything else is NaT
ValidDate(y, m, d) ==
    /\ AllDigits(y) /\ AllDigits(m) /\ AllDigits(d)
    /\ StrToNat(m) \in 1..12
    /\ StrToNat(d) \in 1..31

ToDatetime(v) ==
    IF v.t # "str" THEN NaT
    ELSE LET s == v.s
         IN  IF Len(s) = 10 /\ Ch(s, 3) = "/" /\ Ch(s, 6) = "/"
                   /\ ValidDate(SubSeq(s, 7, 10), SubSeq(s, 4, 5), SubSeq(s, 1, 2))
             THEN Date(SubSeq(s, 7, 10), SubSeq(s, 4, 5), SubSeq(s, 1, 2))
             ELSE IF Len(s) = 10 /\ Ch(s, 5) = "-" /\ Ch(s, 8) = "-"
                   /\ ValidDate(SubSeq(s, 1, 4), SubSeq(s, 6, 7), SubSeq(s, 9, 10))
             THEN Date(SubSeq(s, 1, 4), SubSeq(s, 6, 7), SubSeq(s, 9, 10))
             ELSE NaT

\* series.dt.to_period("M").astype(str), element by element: the text of NaT is "NaT"
PeriodStr(d) == IF d.t = "nat" THEN Str("NaT") ELSE Str(d.y \o "-" \o d.m)

\* series.notna(), element by element
NotNa(v) == v.t \notin {"nan", "nat"}

\* to_csv's text of one value
CsvText(v) ==
    CASE v.t = "str" -> v.s
      [] v.t = "nan" -> ""
      [] v.t = "nat" -> ""
      [] v.t = "num" -> FloatRepr(v.n)
      [] v.t = "date" -> v.y \o "-" \o v.m \o "-" \o v.d

\* filtered.to_csv(index=False), line 289
ToCsv(f) ==
    [delim  |-> ",",
     header |-> f.cols,
     rows   |-> [i \in 1..Len(f.rows) |-> [j \in 1..Len(f.cols) |-> CsvText(f.rows[i][f.cols[j]])]]]

----------------------------------------------------------------------------
(* The script's helpers *)

\* normalize_columns, lines 37-40
NormalizeColumns(f) ==
    LET norm(c) == Lower(Strip(c))
        cols == [j \in 1..Len(f.cols) |-> norm(f.cols[j])]
    IN  Frame(cols,
              [i \in 1..Len(f.rows) |->
                  [c \in Range(cols) |->
                      f.rows[i][f.cols[CHOOSE j \in 1..Len(cols) : cols[j] = c]]]])

\* find_column, lines 43-48
RECURSIVE FindIn(_, _)
FindIn(cols, candidates) ==
    IF candidates = <<>> THEN None
    ELSE IF Head(candidates) \in cols THEN Head(candidates)
    ELSE FindIn(cols, Tail(candidates))

find_column(f, candidates) == FindIn(Range(f.cols), candidates)

\* lines 154-156 and 99
NumCandidates == <<"numero_lancamento", "n_lanc", "num", "numero">>
NomeCandidates == <<"fornecedor_funcionario", "fornecedor", "funcionario", "nome", "beneficiario">>
ValorCandidates == <<"valor_pago", "valor", "pago", "valor_total">>
DateCandidates == <<"data", "data_lancamento", "dt", "competencia">>

col_num(f) == find_column(f, NumCandidates)
col_nome(f) == find_column(f, NomeCandidates)
col_valor(f) == find_column(f, ValorCandidates)

\* line 158: if not col_nome or not col_valor
MissingRequired_WithNum(f) == col_nome(f) = None \/ col_valor(f) = None \/ col_num(f) = None

MissingRequired(f) == col_nome(f) = None \/ col_valor(f) = None

\* pd.api.types.is_numeric_dtype(s), line 61, of a column as ReadColumn made it
IsNumericDtype(s) == Len(s) > 0 /\ \A i \in 1..Len(s) : s[i].t \in {"num", "nan"}

\* parse_money_series, lines 51-89
parse_money_series(s) ==
    IF IsNumericDtype(s) THEN s
    ELSE [i \in 1..Len(s) |-> Hundredths(to_float(s[i]))]

\* ensure_date_column, lines 92-110 (ano and mes, which nothing reads, are left out)
ensure_date_column(f) ==
    LET date_col == find_column(f, DateCandidates)
        dates == IF date_col # None
                 THEN [i \in 1..Len(f.rows) |-> ToDatetime(f.rows[i][date_col])]
                 ELSE [i \in 1..Len(f.rows) |-> NaT]
        f1 == SetCol(f, "data_lancamento", dates)
    IN  SetCol(f1, "ano_mes", [i \in 1..Len(f.rows) |-> PeriodStr(dates[i])])

\* lines 166-179
DropInvalid_KeepZero(f) == Where(f, [i \in 1..Len(f.rows) |-> NotNa(f.rows[i]["valor_pago"])])

DropInvalid(f) ==
    LET f1 == Where(f, [i \in 1..Len(f.rows) |-> NotNa(f.rows[i]["valor_pago"])])
    IN  Where(f1, [i \in 1..Len(f1.rows) |-> f1.rows[i]["valor_pago"] # Num(0)])

CleanFrame(f) ==
    LET nome == col_nome(f)
        valor == col_valor(f)
        num == col_num(f)
        f1 == SetCol(f, "fornecedor_funcionario",
                     [i \in 1..Len(f.rows) |-> Str(Strip(AsStr(f.rows[i][nome])))])
        f2 == SetCol(f1, "valor_pago", parse_money_series(Column(f1, valor)))
        f3 == SetCol(f2, "numero_lancamento",
                     [i \in 1..Len(f.rows) |->
                         IF num # None THEN Str(Strip(AsStr(f.rows[i][num]))) ELSE Str("")])
    IN  DropInvalid(ensure_date_column(f3))

\* line 199
HasDates(f) == \E r \in Range(f.rows) : NotNa(r["data_lancamento"])

\* line 201: ["(Todos)"] + sorted(df["ano_mes"].dropna().unique().tolist())
Meses(f) ==
    <<"(Todos)">> \o SortedStr({r["ano_mes"].s : r \in {q \in Range(f.rows) : NotNa(q["ano_mes"])}})

\* the three selections of lines 208-212, each on its own (str.contains takes the
\* search as a regular expression; the searches drawn hold no operator of one)
BySearch(f, s) ==
    IF Len(Strip(s)) > 0
    THEN Where(f, [i \in 1..Len(f.rows) |->
                      IsSubstring(Lower(s), Lower(f.rows[i]["fornecedor_funcionario"].s))])
    ELSE f

ByRange(f, lo, hi) ==
    Where(f, [i \in 1..Len(f.rows) |->
                 Ge(f.rows[i]["valor_pago"], lo) /\ Le(f.rows[i]["valor_pago"], hi)])

ByPeriod(f, dates, sel) ==
    IF dates /\ sel # "(Todos)"
    THEN Where(f, [i \in 1..Len(f.rows) |-> f.rows[i]["ano_mes"] = Str(sel)])
    ELSE f

\* lines 207-212
FilterFrame_Elif(f, s, lo, hi, dates, sel) ==
    IF Len(Strip(s)) > 0 THEN BySearch(f, s) ELSE ByPeriod(ByRange(f, lo, hi), dates, sel)

FilterFrame(f, s, lo, hi, dates, sel) == ByPeriod(ByRange(BySearch(f, s), lo, hi), dates, sel)

\* lines 220-223
Valores(f) == [i \in 1..Len(f.rows) |-> f.rows[i]["valor_pago"].n]

\* series.mean(): NaN when there is no row (the quotient is cut to hundredths)
Mean(s) == IF Len(s) = 0 THEN NaN ELSE Num(SumSeq(s) \div Len(s))

TicketMedio_NoGuard(f) == Mean(Valores(f))

TicketMedio(f) == IF Len(f.rows) # 0 THEN Mean(Valores(f)) ELSE Num(0)

\* groupby(key)["valor_pago"].sum(): one entry per value of the key
GroupSum(rows, key) ==
    {[key |-> k.s,
      valor_pago |-> SumSeq([i \in 1..Len(rows) |->
                                IF rows[i][key] = k THEN rows[i]["valor_pago"].n ELSE 0])]
       : k \in {r[key] : r \in Range(rows)}}

\* lines 237-242: sort_values(ascending=False) leaves the order of equal sums open
RankOrders_Ascending(f) ==
    {p \in Listings(GroupSum(f.rows, "fornecedor_funcionario")) :
        \A i \in 1..(Len(p) - 1) : p[i].valor_pago <= p[i + 1].valor_pago}

RankOrders(f) ==
    {p \in Listings(GroupSum(f.rows, "fornecedor_funcionario")) :
        \A i \in 1..(Len(p) - 1) : p[i].valor_pago >= p[i + 1].valor_pago}

\* lines 259-264
Serie(f) ==
    LET dated == SelectSeq(f.rows, LAMBDA r : NotNa(r["data_lancamento"]))
        g == GroupSum(dated, "ano_mes")
    IN  CHOOSE p \in Listings(g) : \A i \in 1..(Len(p) - 1) : StrLess(p[i].key, p[i + 1].key)

\* one run of lines 138-179 on a file: the cleaned frame, or the stop of line 164
Ingest(file) ==
    LET d == NormalizeColumns(LoadCsv(file))
    IN  IF MissingRequired(d) THEN [t |-> "stopped", cols |-> d.cols] ELSE CleanFrame(d)

----------------------------------------------------------------------------
(* The files drawn *)

\* A layout is the columns of a file, each with its header as typed and the
\* texts its cells are drawn from.
Col(name, cells) == [name |-> name, cells |-> cells]

Layouts ==
    {\* every column, comma-separated
     <<Col("Numero", {" L7 "}), Col(" Fornecedor ", {"Ac", " B "}),
       Col("Valor", {"1.234,56", "R$ 50,00", "0,00"}), Col("DT", {"05/03/2024", "s/d"})>>,
     \* neither identifier nor date, semicolon-separated
     <<Col("VALOR", {"1.234,56", "R$ 50,00", "0,00", "s/v"}),
       Col("Nome", {"Ac", " B ", "  "})>>,
     \* no identifier
     <<Col("fornecedor", {"Ac"}), Col("valor_pago", {"R$ 50,00", "50.0"}),
       Col("Data", {"05/03/2024", "17/04/2024"})>>,
     \* no date
     <<Col("num", {"7"}), Col("Beneficiario", {"  ", "", " NA "}), Col("pago", {"R$ 50,00"})>>,
     \* no party
     <<Col("Numero", {" L7 "}), Col("Valor", {"R$ 50,00"}), Col("DT", {"05/03/2024", "s/d"})>>,
     \* no amount
     <<Col("Numero", {" L7 "}), Col("Fornecedor", {"Ac", "  "}), Col("DT", {"05/03/2024"})>>,
     \* neither
     <<Col("Numero", {" L7 "}), Col("Obs", {"Ac"})>>}

Delims(l) == IF Len(l) = 2 /\ l[1].name = "VALOR" THEN {";"} ELSE {","}

RowsOf(layout) ==
    {r \in [1..Len(layout) -> UNION {layout[j].cells : j \in 1..Len(layout)}] :
        \A j \in 1..Len(layout) : r[j] \in layout[j].cells}

FilesOf(l) ==
    {[delim |-> d, header |-> [j \in 1..Len(l) |-> l[j].name], rows |-> rows] :
        d \in Delims(l), rows \in UNION {[1..k -> RowsOf(l)] : k \in 0..MaxRows}}

Files == UNION {FilesOf(l) : l \in Layouts}

Searches == {"", "b"}

\* the sidebar's Top N slider, line 126: its 5..50 scaled down to the rows drawn
TopNs == {1, 2}

----------------------------------------------------------------------------
(* The script run *)

\* lines 118-132: a file is uploaded
Upload ==
    /\ pc = "idle"
    /\ \E file \in Files : up' = file
    /\ pc' = "uploaded"
    /\ UNCHANGED <<df, shown, search, vmin, vmax, sel_mes, top_n, has_dates, meses,
                   filtered, kpi, csv_bytes, reloaded, parseVars, classVars>>

\* lines 138-164: read, normalize the headers, resolve the columns, stop if the
\* party or the amount column is missing
Load ==
    /\ pc = "uploaded"
    /\ LET d == NormalizeColumns(LoadCsv(up))
       IN  IF MissingRequired(d)
           THEN /\ shown' = d.cols
                /\ pc' = "stopped"
                /\ df' = df
           ELSE /\ df' = d
                /\ pc' = "detected"
                /\ shown' = shown
    /\ UNCHANGED <<up, search, vmin, vmax, sel_mes, top_n, has_dates, meses,
                   filtered, kpi, csv_bytes, reloaded, parseVars, classVars>>

\* lines 166-179
Clean ==
    /\ pc = "detected"
    /\ df' = CleanFrame(df)
    /\ pc' = "cleaned"
    /\ UNCHANGED <<up, shown, search, vmin, vmax, sel_mes, top_n, has_dates, meses,
                   filtered, kpi, csv_bytes, reloaded, parseVars, classVars>>

\* lines 184-212: the widgets give their values and the view is filtered.  The
\* slider gives any range within [min, max]; the ends drawn are amounts of df, and
\* with no row its bounds and its value are float(NaN).
SliderEnds(f) ==
    IF f.rows = <<>> THEN {NaN} ELSE {r["valor_pago"] : r \in Range(f.rows)}

SelectBox(f) == IF HasDates(f) THEN Meses(f) ELSE <<"(Sem datas no CSV)">>

Filter ==
    /\ pc = "cleaned"
    /\ \E s \in Searches, lo, hi \in SliderEnds(df), sel \in Range(SelectBox(df)) :
          /\ (lo = NaN \/ Le(lo, hi))
          /\ search' = s /\ vmin' = lo /\ vmax' = hi /\ sel_mes' = sel
          /\ filtered' = FilterFrame(df, s, lo, hi, HasDates(df), sel)
    /\ has_dates' = HasDates(df)
    /\ meses' = SelectBox(df)
    /\ pc' = "filtered"
    /\ UNCHANGED <<up, df, shown, top_n, kpi, csv_bytes, reloaded, parseVars, classVars>>

\* lines 220-269: the KPIs, the ranking and the monthly series
Aggregate(n) ==
    /\ pc = "filtered"
    /\ top_n' = n
    /\ \E order \in RankOrders(filtered) :
          kpi' = [total_pago   |-> Num(SumSeq(Valores(filtered))),
                  qtd_lanc     |-> Len(filtered.rows),
                  qtd_pessoas  |-> Cardinality({r["fornecedor_funcionario"]
                                                  : r \in Range(filtered.rows)}),
                  ticket_medio |-> TicketMedio(filtered),
                  rank         |-> HeadN(order, n),
                  serie        |-> IF has_dates THEN Serie(filtered) ELSE <<>>]
    /\ pc' = "charted"
    /\ UNCHANGED <<up, df, shown, search, vmin, vmax, sel_mes, has_dates, meses,
                   filtered, csv_bytes, reloaded, parseVars, classVars>>

\* lines 277-296
Export ==
    /\ pc = "charted"
    /\ csv_bytes' = ToCsv(filtered)
    /\ pc' = "exported"
    /\ UNCHANGED <<up, df, shown, search, vmin, vmax, sel_mes, top_n, has_dates, meses,
                   filtered, kpi, reloaded, parseVars, classVars>>

\* the downloaded file is uploaded again: lines 138-179 on csv_bytes
Reupload ==
    /\ pc = "exported"
    /\ reloaded' = Ingest(csv_bytes)
    /\ pc' = "reloaded"
    /\ UNCHANGED <<up, df, shown, search, vmin, vmax, sel_mes, top_n, has_dates, meses,
                   filtered, kpi, csv_bytes, parseVars, classVars>>

----------------------------------------------------------------------------
(* The classifier (section 4.4 of the specification; src/app.py has none) *)

\* the ordered rule sets: category and keywords, highest priority first
RuleSets ==
    <<[label |-> "Maintenance", keywords |-> {"cimento", "tinta"}],
      [label |-> "Office supplies", keywords |-> {"papel", "resma", "tinta"}]>>

Matches(i, text) == \E k \in RuleSets[i].keywords : IsSubstring(k, text)

RECURSIVE FirstMatch(_, _)
FirstMatch(i, text) ==
    IF i > Len(RuleSets) THEN "Uncategorized"
    ELSE IF Matches(i, text) THEN RuleSets[i].label
    ELSE FirstMatch(i + 1, text)

RECURSIVE LastMatch(_, _)
LastMatch(i, text) ==
    IF i < 1 THEN "Uncategorized"
    ELSE IF Matches(i, text) THEN RuleSets[i].label
    ELSE LastMatch(i - 1, text)

Classify_LastMatch(desc) == LastMatch(Len(RuleSets), Lower(desc))

Classify(desc) == FirstMatch(1, Lower(desc))

Words == {"cimento", "Resma", "papel", "TINTA", "compra", "de"}

NWords(desc) == IF Len(desc) = 0 THEN 0 ELSE Count(desc, " ") + 1

WriteWord(w) ==
    /\ category = Unset
    /\ NWords(description) < MaxWords
    /\ description' = IF Len(description) = 0 THEN w ELSE description \o " " \o w
    /\ UNCHANGED <<category, parseVars, runVars>>

ClassifyRecord ==
    /\ category = Unset
    /\ category' = Str(Classify(description))
    /\ UNCHANGED <<description, parseVars, runVars>>

----------------------------------------------------------------------------
(* Specifications *)

InitRun ==
    /\ pc = "idle"
    /\ up = Unset /\ df = Unset /\ shown = Unset
    /\ search = Unset /\ vmin = Unset /\ vmax = Unset /\ sel_mes = Unset
    /\ top_n = Unset /\ has_dates = Unset /\ meses = Unset
    /\ filtered = Unset /\ kpi = Unset /\ csv_bytes = Unset /\ reloaded = Unset

InitParse == cell = "" /\ ntok = 0 /\ parsed = Pending

InitClass == description = "" /\ category = Unset

Init == InitParse /\ InitRun /\ InitClass

\* the script, from the upload to the second upload of the exported file
Next ==
    \/ Upload
    \/ Load
    \/ Clean
    \/ Filter
    \/ \E n \in TopNs : Aggregate(n)
    \/ Export
    \/ Reupload

Spec == Init /\ [][Next]_vars

\* _to_float on every cell of at most MaxTokens tokens
NextParse == (\E t \in Tokens : TypeToken(t)) \/ ParseCell

SpecParse == Init /\ [][NextParse]_vars

\* the classifier on every description of at most MaxWords words
NextClassify == (\E w \in Words : WriteWord(w)) \/ ClassifyRecord

SpecClassify == Init /\ [][NextClassify]_vars

----------------------------------------------------------------------------
(* Claims *)

Ingested == pc \in {"cleaned", "filtered", "charted", "exported", "reloaded"}
Filtered == pc \in {"filtered", "charted", "exported", "reloaded"}
Charted == pc \in {"charted", "exported", "reloaded"}

Party(r) == r["fornecedor_funcionario"].s
Valor(r) == r["valor_pago"]

\* the headers of the uploaded file, trimmed and lower-cased
UpHeaders == [j \in 1..Len(up.header) |-> Lower(Strip(up.header[j]))]

Resolvable(candidates) == \E i \in 1..Len(candidates) : candidates[i] \in Range(UpHeaders)

\* the column of the uploaded file a candidate list resolves to
UpColumn(candidates) ==
    CHOOSE j \in 1..Len(UpHeaders) :
        \E i \in 1..Len(candidates) :
            /\ UpHeaders[j] = candidates[i]
            /\ \A h \in 1..(i - 1) : candidates[h] \notin Range(UpHeaders)

\* ---- C1 ----

F123456 == [t |-> "float", neg |-> FALSE, ip |-> "1234", fp |-> "56"]

\* the cell without currency markers and spaces ("R" and "$" occur only as "R$")
C1_Bare(txt) == Replace(Replace(Replace(txt, " ", ""), "R", ""), "$", "")

\* The decimal mark is ',' when the text has a comma and no period, '.' otherwise;
\* every decimal mark but the last is removed and the last one becomes '.'.
C1_Marks(s) ==
    LET mark == IF Contains(s, ",") /\ ~Contains(s, ".") THEN "," ELSE "."
    IN  IF Count(s, mark) = 0 THEN s
        ELSE LET k == LastIndex(s, mark)
             IN  Replace(SubSeq(s, 1, k - 1), mark, "") \o "." \o SubSeq(s, k + 1, Len(s))

C1_AmendedText(txt) ==
    LET s == C1_Bare(txt)
    IN  IF IsPtBR(s) THEN Replace(Replace(s, ".", ""), ",", ".") ELSE C1_Marks(s)

\* C1 as stated: the result of _to_float on a cell is the result of the decision
\* procedure whose comma rule and multiple-period rule exclude each other (strip;
\* pt-BR pattern; else if comma and no period; else if several periods; parse).
C1_Original ==
    parsed # Pending =>
        parsed = Float(LET s == C1_Bare(cell)
                       IN  IF IsPtBR(s) THEN Replace(Replace(s, ".", ""), ",", ".")
                           ELSE IF Contains(s, ",") /\ ~Contains(s, ".")
                                THEN Replace(s, ",", ".")
                           ELSE IF Count(s, ".") > 1 THEN JoinAllButLast(s)
                           ELSE s)

\* C1, amended: the result of _to_float on a cell is the result of the procedure in
\* which the multiple-period rule is applied after the comma rule, to its result
\* (so "1,234,56" gives 1234.56); "1.234,56" and "1234.56" both give 1234.56.
C1_ParseMoney ==
    parsed # Pending =>
        /\ parsed = Float(C1_AmendedText(cell))
        /\ cell \in {"1.234,56", "1234.56"} => parsed = F123456

\* a cell with two commas and no period has been parsed, to 1234.56
C1_Witness == cell = "1,234,56" /\ parsed = F123456

\* ---- C2 ----

\* C2: the script stops after column detection exactly when the party or the amount
\* column is unresolvable; it has then reported the normalized header list and has
\* assigned nothing else, and no later step of the script follows a stop; a file
\* lacking only the identifier or only the date column is never stopped.
C2_FatalInput ==
    /\ pc = "stopped" =>
          /\ ~Resolvable(NomeCandidates) \/ ~Resolvable(ValorCandidates)
          /\ shown = UpHeaders
          /\ df = Unset /\ filtered = Unset /\ kpi = Unset
          /\ csv_bytes = Unset /\ reloaded = Unset
    /\ pc = "detected" => Resolvable(NomeCandidates) /\ Resolvable(ValorCandidates)
    /\ pc \notin {"idle", "uploaded", "stopped"} => shown = Unset /\ df # Unset

\* a file with identifier, amount and date but no party column has been stopped
C2_Witness ==
    /\ pc = "stopped"
    /\ shown = <<"numero", "valor", "dt">>
    /\ Len(up.rows) > 0

\* ---- C3 ----

\* the amount of row i of the uploaded file, as _to_float reads its text
UpAmount(i) ==
    LET txt == up.rows[i][UpColumn(ValorCandidates)]
    IN  IF txt \in NaValues THEN NaN ELSE to_float(Str(txt))

ValidAmount(i) == UpAmount(i).t = "float" /\ Len(UpAmount(i).ip) + Len(UpAmount(i).fp) > 0

\* C3: every record of the working set and of the filtered view has an amount that
\* is a number other than zero; the working set has one record per uploaded row
\* whose amount parses to a number other than zero, so a row whose amount is
\* unparseable or zero is in neither the count nor the total.
C3_ValidAmounts ==
    /\ Ingested => \A r \in Range(df.rows) : Valor(r).t = "num" /\ Valor(r).n # 0
    /\ pc = "cleaned" => Len(df.rows) = Cardinality({i \in 1..Len(up.rows) : ValidAmount(i)})
    /\ Filtered =>
          /\ \A r \in Range(filtered.rows) : Valor(r).t = "num" /\ Valor(r).n # 0
          /\ Len(filtered.rows) <= Len(df.rows)
    /\ Charted =>
          /\ kpi.qtd_lanc = Len(filtered.rows)
          /\ kpi.total_pago = Num(SumSeq([i \in 1..Len(filtered.rows) |-> Valor(filtered.rows[i]).n]))

\* a file with a "0,00" row, an unparseable row and nothing else has been cleaned
C3_Witness ==
    /\ pc = "charted"
    /\ Len(up.rows) = 2
    /\ {up.rows[i][UpColumn(ValorCandidates)] : i \in 1..2} = {"0,00", "s/v"}
    /\ df.rows = <<>>
    /\ kpi.qtd_lanc = 0

\* ---- C4 ----

UpParty(i) == up.rows[i][UpColumn(NomeCandidates)]

\* C4 as stated: every record of the working set and of the filtered view has a
\* non-empty party, and the working set holds no more records than the uploaded
\* file has rows with a valid amount and a party that is present and not blank.
C4_NonEmptyParty ==
    /\ Ingested =>
          /\ \A r \in Range(df.rows) : Party(r) # ""
          /\ Len(df.rows) <= Cardinality({i \in 1..Len(up.rows) :
                                            ValidAmount(i) /\ Len(Strip(UpParty(i))) > 0})
    /\ Filtered => \A r \in Range(filtered.rows) : Party(r) # ""

\* ---- C5 ----

\* C5 as stated: in every record of the working set ano_mes is missing exactly when
\* data_lancamento is, and is otherwise the "YYYY-MM" of the date; no selectable
\* period and no selected period is the ano_mes of a record without a date.
C5_PeriodKey ==
    /\ Ingested =>
          \A r \in Range(df.rows) :
              /\ NotNa(r["ano_mes"]) <=> NotNa(r["data_lancamento"])
              /\ NotNa(r["data_lancamento"]) =>
                    r["ano_mes"] = Str(r["data_lancamento"].y \o "-" \o r["data_lancamento"].m)
    /\ Filtered =>
          \A r \in Range(df.rows) :
              ~NotNa(r["data_lancamento"]) =>
                  /\ r["ano_mes"] \notin {Str(m) : m \in Range(meses)}
                  /\ r["ano_mes"] # Str(sel_mes)

\* ---- C6 ----

SearchOk(r) == Len(Strip(search)) > 0 => IsSubstring(Lower(search), Lower(Party(r)))
RangeOk(r) == Ge(Valor(r), vmin) /\ Le(Valor(r), vmax)
PeriodOk(r) == (has_dates /\ sel_mes # "(Todos)") => r["ano_mes"] = Str(sel_mes)

\* C6: the filtered view is the records of the working set that satisfy the search,
\* the range and the period predicate, in their order; the three selections applied
\* in any of the six orders give it; and the working set is still the one ingestion
\* produced.
C6_FilterIntersection ==
    Filtered =>
        /\ filtered.cols = df.cols
        /\ filtered.rows = SelectSeq(df.rows, LAMBDA r : SearchOk(r) /\ RangeOk(r) /\ PeriodOk(r))
        /\ filtered = ByPeriod(ByRange(BySearch(df, search), vmin, vmax), has_dates, sel_mes)
        /\ filtered = ByRange(ByPeriod(BySearch(df, search), has_dates, sel_mes), vmin, vmax)
        /\ filtered = ByPeriod(BySearch(ByRange(df, vmin, vmax), search), has_dates, sel_mes)
        /\ filtered = BySearch(ByPeriod(ByRange(df, vmin, vmax), has_dates, sel_mes), search)
        /\ filtered = ByRange(BySearch(ByPeriod(df, has_dates, sel_mes), search), vmin, vmax)
        /\ filtered = BySearch(ByRange(ByPeriod(df, has_dates, sel_mes), vmin, vmax), search)
        /\ pc = "filtered" => df = Ingest(up)

\* all three predicates are active and the view is a proper, non-empty part of the
\* working set
C6_Witness ==
    /\ pc = "filtered"
    /\ Len(Strip(search)) > 0
    /\ vmin = vmax
    /\ has_dates /\ sel_mes # "(Todos)"
    /\ Len(df.rows) = 2
    /\ Len(filtered.rows) = 1
    /\ \E r \in Range(df.rows) : SearchOk(r) /\ ~RangeOk(r)

\* ---- C7 ----

\* C7 as stated: the working set obtained from the exported file has the party and
\* the amount of the exported view, row for row.
C7_RoundTrip ==
    pc = "reloaded" =>
        /\ "rows" \in DOMAIN reloaded
        /\ Len(reloaded.rows) = Len(filtered.rows)
        /\ \A i \in 1..Len(filtered.rows) :
              /\ Party(reloaded.rows[i]) = Party(filtered.rows[i])
              /\ Valor(reloaded.rows[i]) = Valor(filtered.rows[i])

\* ---- C8 ----

\* C8: when the filtered view is empty, whether ingestion skipped every row or the
\* filters removed them, the script goes on to the KPIs and the export, and total,
\* count, distinct parties and average are 0 and the ranking and the series empty.
C8_EmptyResult ==
    /\ (pc = "cleaned" /\ df.rows = <<>>) => ENABLED Filter
    /\ (pc = "filtered" /\ filtered.rows = <<>>) => ENABLED (\E n \in TopNs : Aggregate(n))
    /\ (Charted /\ filtered.rows = <<>>) =>
          /\ kpi.total_pago = Num(0)
          /\ kpi.qtd_lanc = 0
          /\ kpi.qtd_pessoas = 0
          /\ kpi.ticket_medio = Num(0)
          /\ kpi.rank = <<>>
          /\ kpi.serie = <<>>
          /\ (pc = "charted" => ENABLED Export)

\* every row of a non-empty file was skipped at ingestion and the KPIs are computed
C8_Witness ==
    /\ pc = "exported"
    /\ Len(up.rows) > 0
    /\ df.rows = <<>>
    /\ kpi.ticket_medio = Num(0)
    /\ csv_bytes.rows = <<>>

\* ---- C9 ----

Parties(f) == {Party(r) : r \in Range(f.rows)}

PartySum(f, p) ==
    SumSeq([i \in 1..Len(f.rows) |-> IF Party(f.rows[i]) = p THEN Valor(f.rows[i]).n ELSE 0])

Min(a, b) == IF a < b THEN a ELSE b

\* C9: the ranking has one entry per distinct party of the filtered view, up to
\* top_n entries; each entry's value is the sum of that party's amounts; the sums
\* do not increase along the ranking; no party left out has a greater sum than one
\* in it.  Two rows of party Ac, 1234.56 and 50.00, give the single entry Ac =
\* 1284.56, total 1284.56 and count 2.
C9_Ranking ==
    pc = "charted" =>
        LET rank == kpi.rank
            inRank == {rank[i].key : i \in 1..Len(rank)}
        IN  /\ Len(rank) = Min(top_n, Cardinality(Parties(filtered)))
            /\ Cardinality(inRank) = Len(rank)
            /\ inRank \subseteq Parties(filtered)
            /\ \A i \in 1..Len(rank) : rank[i].valor_pago = PartySum(filtered, rank[i].key)
            /\ \A i \in 1..(Len(rank) - 1) : rank[i].valor_pago >= rank[i + 1].valor_pago
            /\ \A p \in Parties(filtered) \ inRank :
                  \A i \in 1..Len(rank) : PartySum(filtered, p) <= rank[i].valor_pago
            /\ ( /\ Len(filtered.rows) = 2
                 /\ Parties(filtered) = {"Ac"}
                 /\ {Valor(r).n : r \in Range(filtered.rows)} = {123456, 5000} ) =>
                    /\ rank = <<[key |-> "Ac", valor_pago |-> 128456]>>
                    /\ kpi.total_pago = Num(128456)
                    /\ kpi.qtd_lanc = 2

\* two parties with different sums, Top 1: the ranking is cut to the greater one
C9_Witness ==
    /\ pc = "charted"
    /\ top_n = 1
    /\ Parties(filtered) = {"Ac", "B"}
    /\ PartySum(filtered, "B") > PartySum(filtered, "Ac")
    /\ kpi.rank = <<[key |-> "B", valor_pago |-> PartySum(filtered, "B")]>>

\* ---- C10 ----

Matching == {i \in 1..Len(RuleSets) :
                \E k \in RuleSets[i].keywords : IsSubstring(k, Lower(description))}

\* C10: the category of a description is that of the highest-priority rule set one
\* of whose keywords occurs in the lower-cased description, wherever the keywords
\* stand in it, and "Uncategorized" when no keyword of any rule set occurs.
C10_FirstMatch ==
    category # Unset =>
        IF Matching = {}
        THEN category = Str("Uncategorized")
        ELSE category = Str(RuleSets[CHOOSE i \in Matching : \A j \in Matching : i <= j].label)

\* an office-supplies keyword stands before a maintenance keyword in the text
C10_Witness ==
    /\ description = "Resma de cimento"
    /\ category = Str("Maintenance")

====
